---- MODULE Spec2Model ----
(***************************************************************************)
(* A model of the gin rate limiter of FMotalleb/gin_testfield:             *)
(*   rate_limiter/config.go         Config, its setters and Build          *)
(*   rate_limiter/rate_limiter.go   isBlocked, rlWorker, RateLimitWith     *)
(*   rate_limiter/storage/hashmap.go  the local counter store              *)
(*   rate_limiter/cleanup/worker.go   the periodic FreeAll worker          *)
(*   unnamed/part_002 (storage/redis.go, last revision)  the Redis store   *)
(*                                                                         *)
(* Spec is the limiter as Build starts it.  The other specifications look  *)
(* at one part on its own: StoreSpec and LockSpec at the local store (call *)
(* by call, and statement by statement), RedisSpec at the Redis store,     *)
(* CleanupSpec at a cleanup worker with Start and Stop (StopSpec with Stop *)
(* called repeatedly), TwoSpec at two limiters side by side, SetterSpec at *)
(* setters called after Build, TimingSpec at the tolerance of rlWorker,    *)
(* MiddlewareSpec at the closure of RateLimitWith, RemoteSpec at the       *)
(* limiter on the Redis store, TopSpec at a count next to 65535.           *)
(*                                                                         *)
(* Time is counted in seconds (Second == 1).  A step of a goroutine is one  *)
(* call on the shared store, one channel operation or one sleep, together  *)
(* with the local statements that follow it.  A store method whose body    *)
(* runs under h.lock is one step, enabled only while the mutex is free; a  *)
(* call that locks the mutex it already holds never returns.               *)
(***************************************************************************)
EXTENDS Integers, Sequences, FiniteSets, TLC

\* ------------------------------------------------------------------ bounds
\* The model's clock stops at MaxTime.
MaxTime == 2
\* At most MaxCalls admission calls are issued in one behaviour.
MaxCalls == 3
\* The store-only specification stops increasing an identifier at MaxCount.
MaxCount == 3
\* At most MaxOps calls are made on the local store whose methods are followed
\* step by step.
MaxOps == 3
\* At most MaxSets setter calls are made on a Config after its Build.
MaxSets == 1
\* The last second of the clock of TimingSpec.
MaxClock == 3

\* ------------------------------------------------------- program constants
\* time.Second, the unit of the model's clock (config.go:301).
Second == 1
\* uint16: the counter type of the local store (hashmap.go:11).
CounterModulus == 65536

\* ------------------------------------------------------------ input domains
Ids == {"a", "b"}
NoId == "-"
\* Arguments of the setter chain that precedes Build (main.go:39-45).
Limits == {0, 1, 2}
WorkerCounts == {0, 1, 2}
Timeouts == {1, 2}
Tolerances == {-1, 1, 2}
Rotations == {0, 2, 3}

\* Request goroutines inside the admission function at once: two, so that
\* calls can overlap.
Callers == {1, 2}
\* Worker goroutine numbers: RateLimitWith starts cfg.workerCount of them.
Workers == 1..(CHOOSE n \in WorkerCounts : \A k \in WorkerCounts : k <= n)

NoEntry == [userID |-> NoId, releaseTime |-> 0]

\* Goroutines that call the methods of one local store at the same time.
Goroutines == {1, 2}
\* A goroutine that is in no method of the store.
IdleGoroutine == [fn |-> "none", outer |-> "none", id |-> NoId, pc |-> "idle",
                  count |-> 0, seen |-> 0]
\* No call has been made on the store.
NoCalls == [started |-> [id \in Ids |-> 0], done |-> [id \in Ids |-> 0],
            total |-> 0, increasesOnly |-> TRUE]
\* A CleanupWorker that was not created.
NoWorker == [pc |-> "none", stopped |-> FALSE]
\* A *gin.Context on which the middleware has not run.
NoContext ==
  [id |-> NoId, currentState |-> 0, blocked |-> "none", handler |-> FALSE, next |-> FALSE]
\* No Config was made: no store and no queue exists.
NoHeap == [stores |-> << >>, queues |-> << >>, configs |-> << >>, actor |-> 0]

VARIABLES
  cfg,        \* the *Config handed to Build
  result,     \* Build's return values: h (a handler was returned), e (an error was)
  now,        \* time.Now(), in seconds since Build
  storage,    \* hashMapStorage.storage: map[string]uint16
  lock,       \* hashMapStorage.lock is locked
  pc,         \* per admission call in flight: where isBlocked stands
  userID,     \* per admission call in flight: its identifier
  offered,    \* cfg.queue: the entry each blocked sender offers on the channel
  wpc,        \* per rlWorker goroutine: where its loop stands
  toFree,     \* per rlWorker goroutine: the entry it received
  cleanup,    \* the CleanupWorker: started, rotation, the ticker's state
  admittedAt, \* history: per identifier, the times of its admitted calls
  denied,     \* history: per identifier, the number of its denied calls
  overlapped, \* history: two admission calls have been in flight at once
  released,   \* history: a worker has called Decrease
  cleaned,    \* history: FreeAll has run
  last,       \* history (store-only specifications): the last store call
  goroutine,  \* per goroutine inside a method of the local store: where it stands
  calls,      \* history: the calls made on the local store, step by step
  redis,      \* the keys of the Redis server behind rlRedisStorage
  crashed,    \* the process has exited (log.Fatalf, or a panic)
  failed,     \* history: the commands of the last call on the Redis store that failed
  cwState,    \* a CleanupWorker with its owner: stopChan and the run loop
  heap,       \* the Configs made by NewConfigBuilder, with their stores and queues
  sets,       \* the number of setter calls made on the Config
  ctx         \* per request of the middleware: what the closure has called

vars == << cfg, result, now, storage, lock, pc, userID, offered, wpc, toFree,
           cleanup, admittedAt, denied, overlapped, released, cleaned, last,
           goroutine, calls, redis, crashed, failed, cwState, heap, sets, ctx >>

\* The variables of the specifications that look at one part of the program
\* on its own; the rate limiter's actions leave them alone.
auxVars == << goroutine, calls, redis, crashed, failed, cwState, heap, sets, ctx >>

limiterVars == << cfg, result, now, pc, userID, offered, wpc, toFree,
                  cleanup, admittedAt, denied, overlapped, released, cleaned >>

\* --------------------------------------------------------- the local store
EmptyMap == [k \in {} |-> 0]

\* h.storage[id]: the zero value for a key that is absent.
Get(m, id) == IF id \in DOMAIN m THEN m[id] ELSE 0

MapSet(m, id, v) == [k \in (DOMAIN m) \cup {id} |-> IF k = id THEN v ELSE m[k]]

\* delete(h.storage, id)
MapDelete(m, id) == [k \in (DOMAIN m) \ {id} |-> m[k]]

\* h.storage[id]++ on a uint16
MapIncrease(m, id) == MapSet(m, id, (Get(m, id) + 1) % CounterModulus)

\* A FreeAll that replaces the map of a copy of the store.
FreeAllMap_ValueReceiver(m) == m

\* h.storage = make(map[string]uint16)
FreeAllMap(m) == EmptyMap

\* The outcome of a store call: the map and the mutex it leaves, and whether
\* the call returned (a call that did not is parked in h.lock.Lock()).
Outcome(m, lk, ret) == [storage |-> m, lock |-> lk, returned |-> ret]

\* Free, called while the mutex is in state lk: h.lock.Lock() parks the
\* goroutine while the mutex is locked (sync.Mutex is not reentrant).
FreeOp(m, lk, id) ==
  IF lk THEN Outcome(m, TRUE, FALSE)
        ELSE Outcome(MapDelete(m, id), FALSE, TRUE)

\* Decrease, called with the mutex free: it locks, reads the count and either
\* calls Free with the mutex still locked or stores count - 1 and unlocks.
DecreaseOp(m, id) ==
  LET count == Get(m, id) IN
  IF count <= 1
    THEN FreeOp(m, TRUE, id)
    ELSE Outcome(MapSet(m, id, count - 1), FALSE, TRUE)

\* ------------------------------------------------------------------ Build
Configs ==
  [ limit : Limits, workerCount : WorkerCounts, timeout : Timeouts,
    tolerance : Tolerances, fullCleanupRotation : Rotations,
    idSelector : BOOLEAN, handler : BOOLEAN, storage : BOOLEAN ]

\* The validation of the revision that had no cleanup rotation: the last
\* case is missing.
BuildError_NoRotationCase(c) ==
  IF c.tolerance >= c.timeout
    THEN "tolerance value cannot be greater than or equal to timeout"
  ELSE IF ~c.idSelector THEN "IdSelector value cannot be nil"
  ELSE IF ~c.handler THEN "Handler value cannot be nil"
  ELSE IF ~c.storage THEN "Storage value cannot be nil"
  ELSE IF c.limit = 0 THEN "Limit value cannot be 0"
  ELSE IF c.timeout <= Second THEN "Timeout cannot be less than a time.Second"
  ELSE IF c.tolerance < 0 THEN "Tolerance value cannot be less than zero"
  ELSE IF c.timeout < c.tolerance THEN "Tolerance value cannot be less than Timeout"
  ELSE IF c.workerCount = 0 THEN "WorkerCount cannot be 0"
  ELSE ""

\* The validation with the first test as tolerance > timeout: a tolerance
\* equal to the timeout passes it, and no later case catches it.
BuildError_StrictTolerance(c) ==
  IF c.tolerance > c.timeout
    THEN "tolerance value cannot be greater than or equal to timeout"
  ELSE IF ~c.idSelector THEN "IdSelector value cannot be nil"
  ELSE IF ~c.handler THEN "Handler value cannot be nil"
  ELSE IF ~c.storage THEN "Storage value cannot be nil"
  ELSE IF c.limit = 0 THEN "Limit value cannot be 0"
  ELSE IF c.timeout <= Second THEN "Timeout cannot be less than a time.Second"
  ELSE IF c.tolerance < 0 THEN "Tolerance value cannot be less than zero"
  ELSE IF c.timeout < c.tolerance THEN "Tolerance value cannot be less than Timeout"
  ELSE IF c.workerCount = 0 THEN "WorkerCount cannot be 0"
  ELSE IF c.fullCleanupRotation <= c.timeout
    THEN "FullCleanupRotation cannot be less than Timeout"
  ELSE ""

\* The error Build reports for c, "" when it reports none.
BuildError(c) ==
  IF c.tolerance >= c.timeout
    THEN "tolerance value cannot be greater than or equal to timeout"
  ELSE IF ~c.idSelector THEN "IdSelector value cannot be nil"
  ELSE IF ~c.handler THEN "Handler value cannot be nil"
  ELSE IF ~c.storage THEN "Storage value cannot be nil"
  ELSE IF c.limit = 0 THEN "Limit value cannot be 0"
  ELSE IF c.timeout <= Second THEN "Timeout cannot be less than a time.Second"
  ELSE IF c.tolerance < 0 THEN "Tolerance value cannot be less than zero"
  ELSE IF c.timeout < c.tolerance THEN "Tolerance value cannot be less than Timeout"
  ELSE IF c.workerCount = 0 THEN "WorkerCount cannot be 0"
  ELSE IF c.fullCleanupRotation <= c.timeout
    THEN "FullCleanupRotation cannot be less than Timeout"
  ELSE ""

\* cleanup.NewWorker(cfg.storage, cfg.timeout): the rotation Build hands over.
CleanupRotation(c) == c.timeout

NoCleanup == [started |-> FALSE, rotation |-> 0, nextTick |-> 0, tickPending |-> FALSE]

\* CleanupWorker.Start: run() creates time.NewTicker(cw.rotation).
StartedCleanup(rotation, t) ==
  [started |-> TRUE, rotation |-> rotation, nextTick |-> t + rotation,
   tickPending |-> FALSE]

\* The parts of the program that a specification does not look at: no call
\* is made on them.
AuxIdle ==
  /\ goroutine = [g \in Goroutines |-> IdleGoroutine]
  /\ calls = NoCalls
  /\ redis = EmptyMap
  /\ crashed = FALSE
  /\ failed = {}
  /\ cwState = NoWorker
  /\ heap = NoHeap
  /\ sets = 0
  /\ ctx = [c \in Callers |-> NoContext]

NoLast == [op |-> "none", id |-> NoId, before |-> EmptyMap, returned |-> TRUE, value |-> 0]

Init ==
  /\ cfg \in Configs
  /\ result = [called |-> FALSE, h |-> FALSE, e |-> ""]
  /\ now = 0
  /\ storage = EmptyMap
  /\ lock = FALSE
  /\ pc = [c \in Callers |-> "idle"]
  /\ userID = [c \in Callers |-> NoId]
  /\ offered = [c \in Callers |-> NoEntry]
  /\ wpc = [w \in Workers |-> "off"]
  /\ toFree = [w \in Workers |-> NoEntry]
  /\ cleanup = NoCleanup
  /\ admittedAt = [id \in Ids |-> << >>]
  /\ denied = [id \in Ids |-> 0]
  /\ overlapped = FALSE
  /\ released = FALSE
  /\ cleaned = FALSE
  /\ last = NoLast
  /\ AuxIdle

\* Config.Build: the validation, then RateLimitWith (one rlWorker goroutine
\* per workerCount) and the cleanup worker.
Build ==
  /\ ~result.called
  /\ LET err == BuildError(cfg) IN
     /\ result' = [called |-> TRUE, h |-> (err = ""), e |-> err]
     /\ IF err = ""
          THEN /\ wpc' = [w \in Workers |-> IF w <= cfg.workerCount THEN "recv" ELSE "off"]
               /\ cleanup' = IF cfg.fullCleanupRotation > 0
                               THEN StartedCleanup(CleanupRotation(cfg), now)
                               ELSE NoCleanup
          ELSE UNCHANGED << wpc, cleanup >>
  /\ UNCHANGED << cfg, now, storage, lock, pc, userID, offered, toFree,
                  admittedAt, denied, overlapped, released, cleaned, last >>
  /\ UNCHANGED auxVars

\* ------------------------------------------------- the admission decision
\* A test that lets the call at the limit through.
Blocked_OffByOne(currentState, limit) == currentState > limit

\* isBlocked's test of the count it read.
Blocked(currentState, limit) == currentState >= limit

\* An entry that is due at once.
ReleaseTime_NoWindow(t, timeout) == t

\* addToReleaseQueue's entry: time.Now().Add(cfg.timeout).
ReleaseTime(t, timeout) == t + timeout

RECURSIVE SumOver(_, _)
SumOver(f, S) ==
  IF S = {} THEN 0
  ELSE LET x == CHOOSE y \in S : TRUE IN f[x] + SumOver(f, S \ {x})

\* The admission calls issued so far.
NumCalls == SumOver([id \in Ids |-> Len(admittedAt[id]) + denied[id]], Ids)

InFlight == {c \in Callers : pc[c] # "idle"}

\* Request goroutines are interchangeable: a new call takes the first free
\* slot of the model.
FirstIdle ==
  IF \E c \in Callers : pc[c] = "idle"
    THEN CHOOSE c \in Callers : pc[c] = "idle" /\ \A d \in Callers : pc[d] = "idle" => c <= d
    ELSE 0

\* isBlocked, entered for identifier id: cfg.storage.Get(id) and the test.
\* A blocked call returns at once; the history records the decision.
IsBlockedGet(c, id) ==
  /\ result.h
  /\ c = FirstIdle
  /\ NumCalls < MaxCalls
  /\ ~lock
  /\ LET currentState == Get(storage, id) IN
     IF Blocked(currentState, cfg.limit)
       THEN /\ denied' = [denied EXCEPT ![id] = @ + 1]
            /\ UNCHANGED << pc, userID, admittedAt >>
       ELSE /\ admittedAt' = [admittedAt EXCEPT ![id] = Append(@, now)]
            /\ UNCHANGED denied
            /\ pc' = [pc EXCEPT ![c] = "increase"]
            /\ userID' = [userID EXCEPT ![c] = id]
  /\ overlapped' = (overlapped \/ InFlight # {})
  /\ UNCHANGED << cfg, result, now, storage, lock, offered, wpc, toFree,
                  cleanup, released, cleaned, last >>
  /\ UNCHANGED auxVars

\* isBlocked: cfg.storage.Increase(id), then addToReleaseQueue builds the
\* entry and its send on cfg.queue waits for a receiver.
IsBlockedIncrease(c) ==
  /\ pc[c] = "increase"
  /\ ~lock
  /\ storage' = MapIncrease(storage, userID[c])
  /\ offered' = [offered EXCEPT ![c] =
                   [userID |-> userID[c],
                    releaseTime |-> ReleaseTime(now, cfg.timeout)]]
  /\ pc' = [pc EXCEPT ![c] = "send"]
  /\ UNCHANGED << cfg, result, now, lock, userID, wpc, toFree,
                  cleanup, admittedAt, denied, overlapped, released, cleaned, last >>
  /\ UNCHANGED auxVars

\* ------------------------------------------------------------ the workers
\* rlWorker after a receive: it sleeps when the remaining time is at least
\* the tolerance, and goes on to Decrease otherwise.
AfterReceive(entry, t, tolerance) ==
  LET duration == entry.releaseTime - t IN
  IF duration >= tolerance THEN "sleep" ELSE "decrease"

\* The rlWorker goroutines are interchangeable: of those waiting in their
\* range loop, the model lets the first one receive.
FirstReceiver ==
  IF \E w \in Workers : wpc[w] = "recv"
    THEN CHOOSE w \in Workers : wpc[w] = "recv" /\ \A v \in Workers : wpc[v] = "recv" => w <= v
    ELSE 0

\* A send on a buffered queue: it completes with no worker receiving.
Handoff_Buffered(c, w) ==
  /\ pc[c] = "send"
  /\ offered' = [offered EXCEPT ![c] = NoEntry]
  /\ userID' = [userID EXCEPT ![c] = NoId]
  /\ pc' = [pc EXCEPT ![c] = "idle"]
  /\ UNCHANGED << cfg, result, now, storage, lock, wpc, toFree, cleanup,
                  admittedAt, denied, overlapped, released, cleaned, last >>
  /\ UNCHANGED auxVars

\* cfg.queue = make(chan rateEntry): a send completes in the step in which
\* worker w, waiting in its range loop, receives the entry.
Handoff(c, w) ==
  /\ pc[c] = "send"
  /\ w = FirstReceiver
  /\ toFree' = [toFree EXCEPT ![w] = offered[c]]
  /\ wpc' = [wpc EXCEPT ![w] = AfterReceive(offered[c], now, cfg.tolerance)]
  /\ offered' = [offered EXCEPT ![c] = NoEntry]
  /\ userID' = [userID EXCEPT ![c] = NoId]
  /\ pc' = [pc EXCEPT ![c] = "idle"]
  /\ UNCHANGED << cfg, result, now, storage, lock, cleanup, admittedAt, denied, overlapped,
                  released, cleaned, last >>
  /\ UNCHANGED auxVars

\* time.Sleep that returns at once, whatever the duration.
Awake_NoSleep(w) == wpc[w] \in {"decrease", "sleep"}

\* time.Sleep(duration) has returned: the release time has come, or the
\* worker did not sleep.
Awake(w) == wpc[w] = "decrease" \/ (wpc[w] = "sleep" /\ now >= toFree[w].releaseTime)

\* cfg.storage.Decrease(toFree.userID); a call that returns takes the worker
\* back to its receive, one that does not leaves it parked in the store.
WorkerDecrease(w) ==
  /\ Awake(w)
  /\ ~lock
  /\ LET out == DecreaseOp(storage, toFree[w].userID) IN
     /\ storage' = out.storage
     /\ lock' = out.lock
     /\ wpc' = [wpc EXCEPT ![w] = IF out.returned THEN "recv" ELSE "parked"]
     /\ toFree' = [toFree EXCEPT ![w] = IF out.returned THEN NoEntry ELSE @]
  /\ released' = TRUE
  /\ UNCHANGED << cfg, result, now, pc, userID, offered, cleanup, admittedAt, denied,
                  overlapped, cleaned, last >>
  /\ UNCHANGED auxVars

\* ----------------------------------------------------- the cleanup worker
\* CleanupWorker.run: a tick is waiting on ticker.C; cw.storage.FreeAll().
CleanupRun ==
  /\ cleanup.started
  /\ cleanup.tickPending
  /\ ~lock
  /\ storage' = FreeAllMap(storage)
  /\ cleanup' = [cleanup EXCEPT !.tickPending = FALSE]
  /\ cleaned' = TRUE
  /\ UNCHANGED << cfg, result, now, lock, pc, userID, offered, wpc, toFree,
                  admittedAt, denied, overlapped, released, last >>
  /\ UNCHANGED auxVars

\* The ticker after the clock reached t: a tick is put on ticker.C (which
\* holds one tick; a second one is dropped) every rotation.
TickerAt(cw, t) ==
  IF cw.started /\ t >= cw.nextTick
    THEN [cw EXCEPT !.tickPending = TRUE, !.nextTick = @ + cw.rotation]
    ELSE cw

\* A second passes.
Tick ==
  /\ result.h
  /\ now < MaxTime
  /\ now' = now + 1
  /\ cleanup' = TickerAt(cleanup, now + 1)
  /\ UNCHANGED << cfg, result, storage, lock, pc, userID, offered, wpc, toFree,
                  admittedAt, denied, overlapped, released, cleaned, last >>
  /\ UNCHANGED auxVars

Next ==
  \/ Build
  \/ \E c \in Callers, id \in Ids : IsBlockedGet(c, id)
  \/ \E c \in Callers : IsBlockedIncrease(c)
  \/ \E c \in Callers, w \in Workers : Handoff(c, w)
  \/ \E w \in Workers : WorkerDecrease(w)
  \/ CleanupRun
  \/ Tick

Spec == Init /\ [][Next]_vars

\* ------------------------------------------- the local store on its own
\* rlstorage.NewHashMapStorage, as NewConfigBuilder calls it, and then the
\* calls of the RLStorage interface made directly, one at a time.
NewConfigBuilder ==
  [ limit |-> 60, workerCount |-> 20, timeout |-> 60 * Second,
    tolerance |-> 2 * Second, fullCleanupRotation |-> 24 * 3600 * Second,
    idSelector |-> TRUE, handler |-> TRUE, storage |-> TRUE ]

StoreInit ==
  /\ cfg = NewConfigBuilder
  /\ result = [called |-> FALSE, h |-> FALSE, e |-> ""]
  /\ now = 0
  /\ storage = EmptyMap
  /\ lock = FALSE
  /\ pc = [c \in Callers |-> "idle"]
  /\ userID = [c \in Callers |-> NoId]
  /\ offered = [c \in Callers |-> NoEntry]
  /\ wpc = [w \in Workers |-> "off"]
  /\ toFree = [w \in Workers |-> NoEntry]
  /\ cleanup = NoCleanup
  /\ admittedAt = [id \in Ids |-> << >>]
  /\ denied = [id \in Ids |-> 0]
  /\ overlapped = FALSE
  /\ released = FALSE
  /\ cleaned = FALSE
  /\ last = NoLast
  /\ AuxIdle

\* The history of a store call: the map it found, whether it returned and
\* the value it returned.
Called(op, id, ret, v) ==
  [op |-> op, id |-> id, before |-> storage, returned |-> ret, value |-> v]

\* hashMapStorage.Get
StoreGet(id) ==
  /\ ~lock
  /\ last' = Called("Get", id, TRUE, Get(storage, id))
  /\ UNCHANGED << storage, lock >>
  /\ UNCHANGED << limiterVars, auxVars >>

\* hashMapStorage.Increase
StoreIncrease(id) ==
  /\ ~lock
  /\ Get(storage, id) < MaxCount
  /\ storage' = MapIncrease(storage, id)
  /\ last' = Called("Increase", id, TRUE, 0)
  /\ UNCHANGED lock
  /\ UNCHANGED << limiterVars, auxVars >>

\* hashMapStorage.Decrease
StoreDecrease(id) ==
  /\ ~lock
  /\ LET out == DecreaseOp(storage, id) IN
     /\ storage' = out.storage
     /\ lock' = out.lock
     /\ last' = Called("Decrease", id, out.returned, 0)
  /\ UNCHANGED << limiterVars, auxVars >>

\* hashMapStorage.Free
StoreFree(id) ==
  /\ ~lock
  /\ LET out == FreeOp(storage, lock, id) IN
     /\ storage' = out.storage
     /\ lock' = out.lock
     /\ last' = Called("Free", id, out.returned, 0)
  /\ UNCHANGED << limiterVars, auxVars >>

\* hashMapStorage.FreeAll
StoreFreeAll ==
  /\ ~lock
  /\ storage' = FreeAllMap(storage)
  /\ last' = Called("FreeAll", NoId, TRUE, 0)
  /\ UNCHANGED lock
  /\ UNCHANGED << limiterVars, auxVars >>

StoreNext ==
  \/ \E id \in Ids : StoreGet(id)
  \/ \E id \in Ids : StoreIncrease(id)
  \/ \E id \in Ids : StoreDecrease(id)
  \/ \E id \in Ids : StoreFree(id)
  \/ StoreFreeAll

StoreSpec == StoreInit /\ [][StoreNext]_vars

\* --------------------------- the local store's methods, statement by statement
\* Every method of hashMapStorage is: defer h.lock.Unlock(); h.lock.Lock();
\* the body.  Here a goroutine takes these one at a time, and the read and
\* the write of h.storage[id]++ and of h.storage[id] = count - 1 are two steps.
Methods == {"Get", "Increase", "Decrease", "Free", "FreeAll"}

lockOthers == << limiterVars, last, redis, crashed, failed, cwState, heap, sets, ctx >>

LockInit == StoreInit

\* Goroutine g calls method fn for id (FreeAll takes no identifier).
Call(g, fn, id) ==
  /\ goroutine[g].pc = "idle"
  /\ calls.total < MaxOps
  /\ (fn = "FreeAll") <=> (id = NoId)
  /\ goroutine' = [goroutine EXCEPT ![g] =
       [fn |-> fn, outer |-> "none", id |-> id, pc |-> "lock", count |-> 0,
        seen |-> IF id \in Ids THEN calls.done[id] ELSE 0]]
  /\ calls' = [calls EXCEPT
       !.total = @ + 1,
       !.started = IF fn = "Increase" THEN [@ EXCEPT ![id] = @ + 1] ELSE @,
       !.increasesOnly = @ /\ fn \in {"Get", "Increase"}]
  /\ UNCHANGED << storage, lock >>
  /\ UNCHANGED lockOthers

\* A Lock that does not wait for the mutex.
Lock_NoExclusion(g) ==
  /\ goroutine[g].pc = "lock"
  /\ lock' = TRUE
  /\ goroutine' = [goroutine EXCEPT ![g].pc = "body"]
  /\ UNCHANGED << storage, calls >>
  /\ UNCHANGED lockOthers

\* h.lock.Lock(): the goroutine goes on when the mutex is free, whoever
\* holds it (sync.Mutex is not reentrant).
Lock(g) ==
  /\ goroutine[g].pc = "lock"
  /\ ~lock
  /\ lock' = TRUE
  /\ goroutine' = [goroutine EXCEPT ![g].pc = "body"]
  /\ UNCHANGED << storage, calls >>
  /\ UNCHANGED lockOthers

\* The first statement of the body after Lock.  Decrease with count <= 1
\* calls h.Free(id), whose first statement is h.lock.Lock() again.
Body(g) ==
  LET me == goroutine[g] IN
  /\ me.pc = "body"
  /\ CASE me.fn \in {"Get", "Increase"} ->
            /\ goroutine' = [goroutine EXCEPT
                 ![g].count = Get(storage, me.id),
                 ![g].pc = IF me.fn = "Get" THEN "unlock" ELSE "store"]
            /\ UNCHANGED storage
       [] me.fn = "Decrease" ->
            /\ goroutine' = [goroutine EXCEPT
                 ![g].count = Get(storage, me.id),
                 ![g].fn = IF Get(storage, me.id) <= 1 THEN "Free" ELSE @,
                 ![g].outer = IF Get(storage, me.id) <= 1 THEN "Decrease" ELSE @,
                 ![g].pc = IF Get(storage, me.id) <= 1 THEN "lock" ELSE "store"]
            /\ UNCHANGED storage
       [] me.fn = "Free" ->
            /\ storage' = MapDelete(storage, me.id)
            /\ goroutine' = [goroutine EXCEPT ![g].pc = "unlock"]
       [] me.fn = "FreeAll" ->
            /\ storage' = FreeAllMap(storage)
            /\ goroutine' = [goroutine EXCEPT ![g].pc = "unlock"]
  /\ UNCHANGED << lock, calls >>
  /\ UNCHANGED lockOthers

\* The write of h.storage[id]++ (a uint16) or of h.storage[id] = count - 1.
Store(g) ==
  LET me == goroutine[g] IN
  /\ me.pc = "store"
  /\ storage' = MapSet(storage, me.id,
                       IF me.fn = "Increase" THEN (me.count + 1) % CounterModulus
                                             ELSE me.count - 1)
  /\ goroutine' = [goroutine EXCEPT ![g].pc = "unlock"]
  /\ UNCHANGED << lock, calls >>
  /\ UNCHANGED lockOthers

\* The deferred h.lock.Unlock() and the return; a Free that Decrease called
\* returns into Decrease, whose own deferred Unlock is next.
Unlock(g) ==
  LET me == goroutine[g] IN
  /\ me.pc = "unlock"
  /\ lock' = FALSE
  /\ goroutine' = [goroutine EXCEPT ![g] =
       IF me.outer = "none" THEN IdleGoroutine
       ELSE [me EXCEPT !.fn = me.outer, !.outer = "none"]]
  /\ calls' = [calls EXCEPT !.done =
       IF me.fn = "Increase" THEN [@ EXCEPT ![me.id] = @ + 1] ELSE @]
  /\ UNCHANGED storage
  /\ UNCHANGED lockOthers

LockNext ==
  \/ \E g \in Goroutines, fn \in Methods, id \in Ids \cup {NoId} : Call(g, fn, id)
  \/ \E g \in Goroutines : Lock(g)
  \/ \E g \in Goroutines : Body(g)
  \/ \E g \in Goroutines : Store(g)
  \/ \E g \in Goroutines : Unlock(g)

LockSpec == LockInit /\ [][LockNext]_vars


\* ------------------------------------------------------ the Redis store
\* A Redis server keeps its values as strings; INCR and DECR read the string
\* as a decimal integer (0 for a key that is absent) and write the result
\* back as one.  A string is a sequence of characters here.
DigitChar == << "0", "1", "2", "3", "4", "5", "6", "7", "8", "9" >>

RECURSIVE Digits(_)
Digits(n) == IF n < 10 THEN << DigitChar[n + 1] >>
             ELSE Digits(n \div 10) \o << DigitChar[(n % 10) + 1] >>

\* The decimal string Redis stores for the integer n.
Itoa(n) == IF n < 0 THEN << "-" >> \o Digits(-n) ELSE Digits(n)

DigitValue(ch) == (CHOOSE k \in 1..10 : DigitChar[k] = ch) - 1

RECURSIVE ParseDigits(_)
ParseDigits(str) ==
  IF str = << >> THEN 0
  ELSE 10 * ParseDigits(SubSeq(str, 1, Len(str) - 1)) + DigitValue(str[Len(str)])

\* strconv.Atoi on a string Redis wrote.
Atoi(str) == IF str[1] = "-" THEN 0 - ParseDigits(Tail(str)) ELSE ParseDigits(str)

\* uint16(result): the conversion of an int keeps the low 16 bits.
Uint16(n) == n % CounterModulus

\* The integer INCR and DECR start from.
RedisInt(db, id) == IF id \in DOMAIN db THEN Atoi(db[id].val) ELSE 0

\* INCR (d = 1) and DECR (d = -1): the key keeps the expiry it has; a key
\* the command creates has none.
RedisIncrBy(db, id, d) ==
  [k \in (DOMAIN db) \cup {id} |->
     IF k = id
       THEN [val |-> Itoa(RedisInt(db, id) + d),
             ttl |-> IF id \in DOMAIN db THEN db[id].ttl ELSE FALSE]
       ELSE db[k]]

\* EXPIRE id ttl
RedisExpire(db, id) ==
  IF id \in DOMAIN db THEN [db EXCEPT ![id].ttl = TRUE] ELSE db

\* SET id 0 with expiration 0: the key is kept for ever with the value "0".
RedisSetZero(db, id) ==
  [k \in (DOMAIN db) \cup {id} |->
     IF k = id THEN [val |-> Itoa(0), ttl |-> FALSE] ELSE db[k]]

\* FLUSHALL
RedisFlushAll(db) == EmptyMap

\* The commands the store sends.
Commands == {"GET", "INCR", "EXPIRE", "DECR", "SET", "FLUSHALL"}

\* Whether a failing command ends the process, in the revision of the store
\* that reports a failing INCR, DECR or SET with log.Fatalf.
EndsProcess_Fatalf(cmd) == cmd \in {"INCR", "DECR", "SET"}

\* Whether a failing command ends the process: the store reports every
\* failure with r.logger.Warnf and returns.
EndsProcess(cmd) == FALSE

\* The commands of a call that failed, given the ones it sent and whether
\* each went well.
Failing(sent) == {cmd \in DOMAIN sent : ~sent[cmd]}

\* rlRedisStorage.Get that answers the highest count when the command fails.
RedisGet_FailClosed(db, id, ok) ==
  IF ~ok THEN CounterModulus - 1
  ELSE IF id \notin DOMAIN db THEN 0 ELSE Uint16(Atoi(db[id].val))

\* rlRedisStorage.Get: 0 when the command fails (redis.Nil for an absent key
\* is such a failure), the stored integer as a uint16 otherwise.
RedisGet(db, id, ok) ==
  IF ~ok \/ id \notin DOMAIN db THEN 0 ELSE Uint16(Atoi(db[id].val))

\* rlRedisStorage.Increase: INCR, then EXPIRE unless INCR failed.
RedisIncrease(db, id, ok, okExpire) ==
  IF ~ok THEN db
  ELSE IF okExpire THEN RedisExpire(RedisIncrBy(db, id, 1), id)
  ELSE RedisIncrBy(db, id, 1)

\* rlRedisStorage.Decrease: DECR
RedisDecrease(db, id, ok) == IF ok THEN RedisIncrBy(db, id, -1) ELSE db

\* rlRedisStorage.Free
RedisFree(db, id, ok) == IF ok THEN RedisSetZero(db, id) ELSE db

\* rlRedisStorage.FreeAll
RedisFreeAll(db, ok) == IF ok THEN RedisFlushAll(db) ELSE db

redisOthers == << limiterVars, storage, lock, goroutine, calls, cwState, heap, sets, ctx >>

\* NewConfigBuilder().Storage(NewRedisStorage(client, ttl, logger)), no key
\* on the server.
RedisInit == StoreInit

\* The history of a call on the Redis store that sent the commands of sent:
\* what it found under id, whether it returned and the value it returned.
RedisCalled(op, id, sent, v) ==
  LET fatal == \E cmd \in Failing(sent) : EndsProcess(cmd) IN
  /\ last' = [op |-> op, id |-> id,
              before |-> [k \in (DOMAIN redis) \cap {id} |-> redis[k]],
              returned |-> ~fatal, value |-> v]
  /\ failed' = Failing(sent)
  /\ crashed' = fatal

\* The commands Increase sends: EXPIRE only after an INCR that went well.
IncreaseSent(ok, okExpire) ==
  IF ok THEN [cmd \in {"INCR", "EXPIRE"} |-> IF cmd = "INCR" THEN TRUE ELSE okExpire]
        ELSE [cmd \in {"INCR"} |-> FALSE]

RedisStoreGet(id, ok) ==
  /\ ~crashed
  /\ RedisCalled("Get", id, [cmd \in {"GET"} |-> ok], RedisGet(redis, id, ok))
  /\ UNCHANGED redis
  /\ UNCHANGED redisOthers

RedisStoreIncrease(id, ok, okExpire) ==
  /\ ~crashed
  /\ RedisInt(redis, id) < MaxCount
  /\ redis' = RedisIncrease(redis, id, ok, okExpire)
  /\ RedisCalled("Increase", id, IncreaseSent(ok, okExpire), 0)
  /\ UNCHANGED redisOthers

RedisStoreDecrease(id, ok) ==
  /\ ~crashed
  /\ RedisInt(redis, id) > 0 - MaxCount
  /\ redis' = RedisDecrease(redis, id, ok)
  /\ RedisCalled("Decrease", id, [cmd \in {"DECR"} |-> ok], 0)
  /\ UNCHANGED redisOthers

RedisStoreFree(id, ok) ==
  /\ ~crashed
  /\ redis' = RedisFree(redis, id, ok)
  /\ RedisCalled("Free", id, [cmd \in {"SET"} |-> ok], 0)
  /\ UNCHANGED redisOthers

RedisStoreFreeAll(ok) ==
  /\ ~crashed
  /\ redis' = RedisFreeAll(redis, ok)
  /\ RedisCalled("FreeAll", NoId, [cmd \in {"FLUSHALL"} |-> ok], 0)
  /\ UNCHANGED redisOthers

\* The server drops a key whose time to live has passed.
KeyExpires(id) ==
  /\ ~crashed
  /\ id \in DOMAIN redis
  /\ redis[id].ttl
  /\ redis' = [k \in (DOMAIN redis) \ {id} |-> redis[k]]
  /\ UNCHANGED << last, failed, crashed >>
  /\ UNCHANGED redisOthers

\* isBlocked on the Redis store, as one call: Get, the test, and for a call
\* that is let through Increase (its send on the queue is followed in Spec).
\* The value recorded is 1 for blocked.
RedisIsBlocked(id, okGet, okIncr) ==
  /\ ~crashed
  /\ RedisInt(redis, id) < MaxCount
  /\ LET currentState == RedisGet(redis, id, okGet) IN
     IF Blocked(currentState, cfg.limit)
       THEN /\ RedisCalled("isBlocked", id, [cmd \in {"GET"} |-> okGet], 1)
            /\ UNCHANGED redis
       ELSE /\ RedisCalled("isBlocked", id,
                           [cmd \in {"GET"} |-> okGet] @@ IncreaseSent(okIncr, okIncr), 0)
            /\ redis' = RedisIncrease(redis, id, okIncr, okIncr)
  /\ UNCHANGED redisOthers

RedisNext ==
  \/ \E id \in Ids, ok \in BOOLEAN : RedisStoreGet(id, ok)
  \/ \E id \in Ids, ok \in BOOLEAN, okExpire \in BOOLEAN : RedisStoreIncrease(id, ok, okExpire)
  \/ \E id \in Ids, ok \in BOOLEAN : RedisStoreDecrease(id, ok)
  \/ \E id \in Ids, ok \in BOOLEAN : RedisStoreFree(id, ok)
  \/ \E ok \in BOOLEAN : RedisStoreFreeAll(ok)
  \/ \E id \in Ids : KeyExpires(id)
  \/ \E id \in Ids, okGet \in BOOLEAN, okIncr \in BOOLEAN : RedisIsBlocked(id, okGet, okIncr)

RedisSpec == RedisInit /\ [][RedisNext]_vars


\* ------------------------------------- a cleanup worker and its owner
\* cleanup.NewWorker(storage, rotation) on a local store, held by an owner
\* that calls Start and Stop, while other goroutines call Increase on the
\* store.  The ticker is the one of the limiter's cleanup worker.
WorkerRotations == {1, 2}

cleanupOthers == << cfg, result, pc, userID, offered, wpc, toFree, admittedAt,
                    denied, overlapped, released, goroutine, calls, redis,
                    crashed, failed, heap, sets, ctx >>

\* NewWorker: the worker holds its rotation; stopChan is open.
CleanupInit ==
  /\ cfg = NewConfigBuilder
  /\ result = [called |-> FALSE, h |-> FALSE, e |-> ""]
  /\ now = 0
  /\ storage = EmptyMap
  /\ lock = FALSE
  /\ pc = [c \in Callers |-> "idle"]
  /\ userID = [c \in Callers |-> NoId]
  /\ offered = [c \in Callers |-> NoEntry]
  /\ wpc = [w \in Workers |-> "off"]
  /\ toFree = [w \in Workers |-> NoEntry]
  /\ \E rotation \in WorkerRotations : cleanup = [NoCleanup EXCEPT !.rotation = rotation]
  /\ admittedAt = [id \in Ids |-> << >>]
  /\ denied = [id \in Ids |-> 0]
  /\ overlapped = FALSE
  /\ released = FALSE
  /\ cleaned = FALSE
  /\ last = NoLast
  /\ goroutine = [g \in Goroutines |-> IdleGoroutine]
  /\ calls = NoCalls
  /\ redis = EmptyMap
  /\ crashed = FALSE
  /\ failed = {}
  /\ cwState = [pc |-> "new", stopped |-> FALSE]
  /\ heap = NoHeap
  /\ sets = 0
  /\ ctx = [c \in Callers |-> NoContext]

\* Start: go cw.run(), which creates its ticker and enters the loop.
CwStart ==
  /\ cwState.pc = "new"
  /\ cwState' = [cwState EXCEPT !.pc = "select"]
  /\ cleanup' = StartedCleanup(cleanup.rotation, now)
  /\ UNCHANGED << now, storage, lock, cleaned, last >>
  /\ UNCHANGED cleanupOthers

\* Stop: close(cw.stopChan).  The owner calls it once (a second close of the
\* channel panics).
CwStop ==
  /\ cwState.pc # "none"
  /\ ~cwState.stopped
  /\ cwState' = [cwState EXCEPT !.stopped = TRUE]
  /\ UNCHANGED << now, storage, lock, cleanup, cleaned, last >>
  /\ UNCHANGED cleanupOthers

\* run: select takes case <-ticker.C, whether or not stopChan is closed too,
\* and calls FreeAll.
CwFreeAll ==
  /\ cwState.pc = "select"
  /\ CleanupRun

\* A stop case that leaves only the select statement: the loop goes on.
CwReturn_StaysInLoop ==
  /\ cwState.pc = "select"
  /\ cwState.stopped
  /\ cwState' = cwState
  /\ cleanup' = cleanup
  /\ UNCHANGED << now, storage, lock, cleaned, last >>
  /\ UNCHANGED cleanupOthers

\* run: select takes case <-cw.stopChan and returns; the deferred
\* ticker.Stop() ends the ticks.
CwReturn ==
  /\ cwState.pc = "select"
  /\ cwState.stopped
  /\ cwState' = [cwState EXCEPT !.pc = "returned"]
  /\ cleanup' = [cleanup EXCEPT !.started = FALSE]
  /\ UNCHANGED << now, storage, lock, cleaned, last >>
  /\ UNCHANGED cleanupOthers

\* A second passes.
CwTick ==
  /\ now < MaxTime
  /\ now' = now + 1
  /\ cleanup' = TickerAt(cleanup, now + 1)
  /\ UNCHANGED << storage, lock, cwState, cleaned, last >>
  /\ UNCHANGED cleanupOthers

CleanupNext ==
  \/ CwStart
  \/ CwStop
  \/ CwFreeAll
  \/ CwReturn
  \/ CwTick
  \/ \E id \in Ids : StoreIncrease(id)

\* select chooses at random among the cases that are ready: a closed
\* stopChan is ready at every select, so its case is taken in the end.
CleanupSpec == CleanupInit /\ [][CleanupNext]_vars /\ WF_vars(CwReturn)


\* ------------------------------------------------ two limiters side by side
\* Two calls of NewConfigBuilder().Limit(limit).Build().  A Config holds
\* references to its store and its queue; heap.stores and heap.queues are
\* the objects referred to.  Each limiter has one request at a time and one
\* rlWorker; heap.actor is the limiter that took the last step.
Limiters == {1, 2}
TwoLimits == {1, 2}

twoOthers == << cfg, result, now, storage, lock, pc, userID, offered, wpc, toFree,
                cleanup, admittedAt, denied, overlapped, released, cleaned, last,
                goroutine, calls, redis, crashed, failed, cwState, sets, ctx >>

TwoInit == StoreInit

\* References held in one package-level variable, as rlLockList and rlQueue
\* were: every Config gets the first object.
NewRef_PackageLevel(objects) == 1

\* make(...) / NewHashMapStorage(...): a reference to a new object.
NewRef(objects) == Len(objects) + 1

\* The objects after an allocation that returned ref.
Allocated(objects, ref, initial) ==
  IF ref > Len(objects) THEN Append(objects, initial) ELSE objects

\* NewConfigBuilder, Limit(limit) and Build for the next limiter.
NewLimiter(limit) ==
  LET i == Len(heap.configs) + 1
      store == NewRef(heap.stores)
      queue == NewRef(heap.queues)
  IN
  /\ i \in Limiters
  /\ heap' = [stores |-> Allocated(heap.stores, store, [storage |-> EmptyMap, lock |-> FALSE]),
              queues |-> Allocated(heap.queues, queue, NoEntry),
              configs |-> Append(heap.configs,
                                 [storage |-> store, queue |-> queue, limit |-> limit,
                                  toFree |-> NoEntry, admitted |-> 0, denied |-> 0]),
              actor |-> i]
  /\ UNCHANGED twoOthers

\* The admission calls made on both limiters so far.
TwoCalls ==
  SumOver([i \in DOMAIN heap.configs |->
             heap.configs[i].admitted + heap.configs[i].denied], DOMAIN heap.configs)

\* isBlocked of limiter i for id, once its previous call has returned: Get,
\* the test, Increase, and the entry offered on the limiter's queue.
TwoIsBlocked(i, id) ==
  /\ i \in DOMAIN heap.configs
  /\ TwoCalls < MaxCalls
  /\ LET c == heap.configs[i]
         st == heap.stores[c.storage]
     IN
     /\ ~st.lock
     /\ heap.queues[c.queue] = NoEntry
     /\ IF Blocked(Get(st.storage, id), c.limit)
          THEN heap' = [heap EXCEPT !.configs[i].denied = @ + 1, !.actor = i]
          ELSE heap' = [heap EXCEPT
                 !.stores[c.storage].storage = MapIncrease(@, id),
                 !.queues[c.queue] = [userID |-> id,
                                      releaseTime |-> ReleaseTime(now, cfg.timeout)],
                 !.configs[i].admitted = @ + 1,
                 !.actor = i]
  /\ UNCHANGED twoOthers

\* The rlWorker of limiter i receives from the limiter's queue.
TwoReceive(i) ==
  /\ i \in DOMAIN heap.configs
  /\ LET c == heap.configs[i] IN
     /\ c.toFree = NoEntry
     /\ heap.queues[c.queue] # NoEntry
     /\ heap' = [heap EXCEPT !.configs[i].toFree = heap.queues[c.queue],
                             !.queues[c.queue] = NoEntry,
                             !.actor = i]
  /\ UNCHANGED twoOthers

\* The rlWorker of limiter i calls Decrease on the limiter's store; a call
\* that does not return leaves the worker with its entry.
TwoDecrease(i) ==
  /\ i \in DOMAIN heap.configs
  /\ LET c == heap.configs[i]
         st == heap.stores[c.storage]
         out == DecreaseOp(st.storage, c.toFree.userID)
     IN
     /\ c.toFree # NoEntry
     /\ ~st.lock
     /\ heap' = [heap EXCEPT
          !.stores[c.storage] = [storage |-> out.storage, lock |-> out.lock],
          !.configs[i].toFree = IF out.returned THEN NoEntry ELSE @,
          !.actor = i]
  /\ UNCHANGED twoOthers

\* The cleanup worker of limiter i calls FreeAll on the limiter's store.
TwoFreeAll(i) ==
  /\ i \in DOMAIN heap.configs
  /\ LET c == heap.configs[i]
         st == heap.stores[c.storage]
     IN
     /\ ~st.lock
     /\ st.storage # EmptyMap
     /\ heap' = [heap EXCEPT !.stores[c.storage].storage = FreeAllMap(@), !.actor = i]
  /\ UNCHANGED twoOthers

TwoNext ==
  \/ \E limit \in TwoLimits : NewLimiter(limit)
  \/ \E i \in Limiters, id \in Ids : TwoIsBlocked(i, id)
  \/ \E i \in Limiters : TwoReceive(i)
  \/ \E i \in Limiters : TwoDecrease(i)
  \/ \E i \in Limiters : TwoFreeAll(i)

TwoSpec == TwoInit /\ [][TwoNext]_vars


\* ------------------------------------------------- setters after Build
\* The Config of NewConfigBuilder().Limit(1).WorkerCount(1).Timeout(2s).
\* Tolerance(1s).FullCleanupRotation(3s), its Build, and then, while the
\* limiter runs, further calls of the setters on the same *Config.  The
\* setters whose argument is a pointer (Storage, Handler, IdSelector, Logger)
\* are left out: the model keeps only whether those fields are nil.
SetterConfig ==
  [ limit |-> 1, workerCount |-> 1, timeout |-> 2 * Second, tolerance |-> Second,
    fullCleanupRotation |-> 3 * Second,
    idSelector |-> TRUE, handler |-> TRUE, storage |-> TRUE ]

SetterInit ==
  /\ cfg = SetterConfig
  /\ result = [called |-> FALSE, h |-> FALSE, e |-> ""]
  /\ now = 0
  /\ storage = EmptyMap
  /\ lock = FALSE
  /\ pc = [c \in Callers |-> "idle"]
  /\ userID = [c \in Callers |-> NoId]
  /\ offered = [c \in Callers |-> NoEntry]
  /\ wpc = [w \in Workers |-> "off"]
  /\ toFree = [w \in Workers |-> NoEntry]
  /\ cleanup = NoCleanup
  /\ admittedAt = [id \in Ids |-> << >>]
  /\ denied = [id \in Ids |-> 0]
  /\ overlapped = FALSE
  /\ released = FALSE
  /\ cleaned = FALSE
  /\ last = NoLast
  /\ AuxIdle

\* A setter: cfg.field = value; return cfg.
Set(field, value) ==
  /\ result.h
  /\ sets < MaxSets
  /\ cfg[field] # value
  /\ cfg' = [cfg EXCEPT ![field] = value]
  /\ sets' = sets + 1
  /\ UNCHANGED << result, now, storage, lock, pc, userID, offered, wpc, toFree,
                  cleanup, admittedAt, denied, overlapped, released, cleaned, last,
                  goroutine, calls, redis, crashed, failed, cwState, heap, ctx >>

\* Config.Limit
SetLimit(limit) == Set("limit", limit)

\* Config.WorkerCount
SetWorkerCount(workers) == Set("workerCount", workers)

\* Config.Timeout
SetTimeout(timeout) == Set("timeout", timeout)

\* Config.Tolerance
SetTolerance(tolerance) == Set("tolerance", tolerance)

\* Config.FullCleanupRotation, and DisableFullCleanup for rotation 0
SetFullCleanupRotation(rotation) == Set("fullCleanupRotation", rotation)

SetterNext ==
  \/ Build
  \/ \E c \in Callers, id \in Ids : IsBlockedGet(c, id)
  \/ \E c \in Callers : IsBlockedIncrease(c)
  \/ \E c \in Callers, w \in Workers : Handoff(c, w)
  \/ \E w \in Workers : WorkerDecrease(w)
  \/ CleanupRun
  \/ Tick
  \/ \E limit \in Limits : SetLimit(limit)
  \/ \E workers \in WorkerCounts : SetWorkerCount(workers)
  \/ \E timeout \in Timeouts : SetTimeout(timeout)
  \/ \E tolerance \in Tolerances : SetTolerance(tolerance)
  \/ \E rotation \in Rotations : SetFullCleanupRotation(rotation)

SetterSpec == SetterInit /\ [][SetterNext]_vars

\* ------------------------------------------------ the tolerance of rlWorker
\* The limiter with the timeouts and tolerances under which a worker can
\* receive an entry less than a tolerance before its release time: Build of a
\* valid Config, requests of one identifier, and a clock that runs past the
\* longest timeout.
TimingTimeouts == {2, 3}
TimingTolerances == {0, 1, 2}

TimingConfigs ==
  { c \in [ limit : {2}, workerCount : {1}, timeout : TimingTimeouts,
            tolerance : TimingTolerances, fullCleanupRotation : {MaxClock + 1},
            idSelector : {TRUE}, handler : {TRUE}, storage : {TRUE} ] :
      BuildError(c) = "" }

TimingInit ==
  /\ cfg \in TimingConfigs
  /\ result = [called |-> FALSE, h |-> FALSE, e |-> ""]
  /\ now = 0
  /\ storage = EmptyMap
  /\ lock = FALSE
  /\ pc = [c \in Callers |-> "idle"]
  /\ userID = [c \in Callers |-> NoId]
  /\ offered = [c \in Callers |-> NoEntry]
  /\ wpc = [w \in Workers |-> "off"]
  /\ toFree = [w \in Workers |-> NoEntry]
  /\ cleanup = NoCleanup
  /\ admittedAt = [id \in Ids |-> << >>]
  /\ denied = [id \in Ids |-> 0]
  /\ overlapped = FALSE
  /\ released = FALSE
  /\ cleaned = FALSE
  /\ last = NoLast
  /\ AuxIdle

\* A second passes, up to MaxClock.
TimingTick ==
  /\ result.h
  /\ now < MaxClock
  /\ now' = now + 1
  /\ cleanup' = TickerAt(cleanup, now + 1)
  /\ UNCHANGED << cfg, result, storage, lock, pc, userID, offered, wpc, toFree,
                  admittedAt, denied, overlapped, released, cleaned, last >>
  /\ UNCHANGED auxVars

TimingNext ==
  \/ Build
  \/ \E c \in Callers : IsBlockedGet(c, "a")
  \/ \E c \in Callers : IsBlockedIncrease(c)
  \/ \E c \in Callers, w \in Workers : Handoff(c, w)
  \/ \E w \in Workers : WorkerDecrease(w)
  \/ CleanupRun
  \/ TimingTick

TimingSpec == TimingInit /\ [][TimingNext]_vars

\* ------------------------------------------- the middleware of RateLimitWith
\* The closure RateLimitWith returns, one *gin.Context per request: it takes
\* the identifier, calls isBlocked and then either cfg.handler(ctx) or
\* ctx.Next().  isBlocked is the limiter's (its Increase and its send are
\* IsBlockedIncrease and Handoff); ctx records what the closure has called.
MiddlewareConfigs ==
  [ limit : {1, 2}, workerCount : {1}, timeout : {2 * Second},
    tolerance : {Second}, fullCleanupRotation : {3 * Second},
    idSelector : {TRUE}, handler : {TRUE}, storage : {TRUE} ]

MiddlewareInit ==
  /\ cfg \in MiddlewareConfigs
  /\ result = [called |-> FALSE, h |-> FALSE, e |-> ""]
  /\ now = 0
  /\ storage = EmptyMap
  /\ lock = FALSE
  /\ pc = [c \in Callers |-> "idle"]
  /\ userID = [c \in Callers |-> NoId]
  /\ offered = [c \in Callers |-> NoEntry]
  /\ wpc = [w \in Workers |-> "off"]
  /\ toFree = [w \in Workers |-> NoEntry]
  /\ cleanup = NoCleanup
  /\ admittedAt = [id \in Ids |-> << >>]
  /\ denied = [id \in Ids |-> 0]
  /\ overlapped = FALSE
  /\ released = FALSE
  /\ cleaned = FALSE
  /\ last = NoLast
  /\ AuxIdle

middlewareOthers == << goroutine, calls, redis, crashed, failed, cwState, heap, sets >>

\* The closure has returned for the request of c, or was never entered.
Returned(c) == ctx[c].blocked = "none" \/ ctx[c].handler \/ ctx[c].next

\* id := cfg.idSelector(ctx); blocked := isBlocked(cfg, id), up to the Get and
\* its test: a blocked call returns true at once, an admitted one goes on to
\* Increase and to the send.
HandlerEnter(c, id) ==
  /\ result.h
  /\ pc[c] = "idle" /\ Returned(c)
  /\ \A d \in Callers : (pc[d] = "idle" /\ Returned(d)) => c <= d
  /\ NumCalls < MaxCalls
  /\ ~lock
  /\ LET currentState == Get(storage, id) IN
     IF Blocked(currentState, cfg.limit)
       THEN /\ denied' = [denied EXCEPT ![id] = @ + 1]
            /\ ctx' = [ctx EXCEPT ![c] = [id |-> id, currentState |-> currentState,
                                          blocked |-> "true", handler |-> FALSE,
                                          next |-> FALSE]]
            /\ UNCHANGED << pc, userID, admittedAt >>
       ELSE /\ admittedAt' = [admittedAt EXCEPT ![id] = Append(@, now)]
            /\ ctx' = [ctx EXCEPT ![c] = [id |-> id, currentState |-> currentState,
                                          blocked |-> "false", handler |-> FALSE,
                                          next |-> FALSE]]
            /\ UNCHANGED denied
            /\ pc' = [pc EXCEPT ![c] = "increase"]
            /\ userID' = [userID EXCEPT ![c] = id]
  /\ overlapped' = (overlapped \/ InFlight # {})
  /\ UNCHANGED << cfg, result, now, storage, lock, offered, wpc, toFree,
                  cleanup, released, cleaned, last >>
  /\ UNCHANGED middlewareOthers

\* The closure without the return after cfg.handler(ctx): it falls through
\* to ctx.Next().
HandlerBlocked_NoReturn(c) ==
  /\ ctx[c].blocked = "true"
  /\ ~ctx[c].handler
  /\ ctx' = [ctx EXCEPT ![c].handler = TRUE, ![c].next = TRUE]
  /\ UNCHANGED << limiterVars, storage, lock, last, middlewareOthers >>

\* if blocked { cfg.handler(ctx); return }
HandlerBlocked(c) ==
  /\ ctx[c].blocked = "true"
  /\ ~ctx[c].handler
  /\ ctx' = [ctx EXCEPT ![c].handler = TRUE]
  /\ UNCHANGED << limiterVars, storage, lock, last, middlewareOthers >>

\* isBlocked has returned false (its send on cfg.queue is done): ctx.Next()
HandlerContinue(c) ==
  /\ ctx[c].blocked = "false"
  /\ pc[c] = "idle"
  /\ ~ctx[c].next
  /\ ctx' = [ctx EXCEPT ![c].next = TRUE]
  /\ UNCHANGED << limiterVars, storage, lock, last, middlewareOthers >>

MiddlewareNext ==
  \/ Build
  \/ \E c \in Callers, id \in Ids : HandlerEnter(c, id)
  \/ \E c \in Callers : IsBlockedIncrease(c)
  \/ \E c \in Callers, w \in Workers : Handoff(c, w)
  \/ \E c \in Callers : HandlerBlocked(c)
  \/ \E c \in Callers : HandlerContinue(c)
  \/ \E w \in Workers : WorkerDecrease(w)
  \/ CleanupRun
  \/ Tick

MiddlewareSpec == MiddlewareInit /\ [][MiddlewareNext]_vars

\* ------------------------------------------- the limiter on the Redis store
\* Build of a valid Config whose storage is NewRedisStorage(client, ...), and
\* the goroutines it starts: isBlocked with Get, Increase and the entry it
\* offers on cfg.queue, rlWorker with Decrease, the cleanup worker with
\* FreeAll, for requests of one identifier.  Every command may fail; the
\* expiry of a key is followed in RedisSpec.  The server behind client is not
\* the limiter's alone: another client writes a key of its own.
RemoteConfigs ==
  [ limit : {1, 2}, workerCount : {2}, timeout : {2 * Second},
    tolerance : {Second}, fullCleanupRotation : {3 * Second},
    idSelector : {TRUE}, handler : {TRUE}, storage : {TRUE} ]

\* A key of the other client, and the value it holds.
OtherKey == "session"
OtherValue == [val |-> << "x" >>, ttl |-> FALSE]

RemoteInit ==
  /\ cfg \in RemoteConfigs
  /\ result = [called |-> FALSE, h |-> FALSE, e |-> ""]
  /\ now = 0
  /\ storage = EmptyMap
  /\ lock = FALSE
  /\ pc = [c \in Callers |-> "idle"]
  /\ userID = [c \in Callers |-> NoId]
  /\ offered = [c \in Callers |-> NoEntry]
  /\ wpc = [w \in Workers |-> "off"]
  /\ toFree = [w \in Workers |-> NoEntry]
  /\ cleanup = NoCleanup
  /\ admittedAt = [id \in Ids |-> << >>]
  /\ denied = [id \in Ids |-> 0]
  /\ overlapped = FALSE
  /\ released = FALSE
  /\ cleaned = FALSE
  /\ last = NoLast
  /\ AuxIdle

remoteOthers == << storage, lock, goroutine, calls, cwState, heap, sets, ctx >>

\* isBlocked on the Redis store: Get and the test; for a call that is let
\* through, Increase and addToReleaseQueue, whose send waits for a worker.
RemoteIsBlocked(c, id, okGet, okIncr, okExpire) ==
  /\ result.h
  /\ ~crashed
  /\ c = FirstIdle
  /\ NumCalls < MaxCalls
  /\ LET currentState == RedisGet(redis, id, okGet) IN
     IF Blocked(currentState, cfg.limit)
       THEN /\ RedisCalled("isBlocked", id, [cmd \in {"GET"} |-> okGet], 1)
            /\ denied' = [denied EXCEPT ![id] = @ + 1]
            /\ UNCHANGED << redis, admittedAt, pc, userID, offered >>
       ELSE /\ RedisCalled("isBlocked", id,
                           [cmd \in {"GET"} |-> okGet] @@ IncreaseSent(okIncr, okExpire), 0)
            /\ redis' = RedisIncrease(redis, id, okIncr, okExpire)
            /\ admittedAt' = [admittedAt EXCEPT ![id] = Append(@, now)]
            /\ offered' = [offered EXCEPT ![c] =
                             [userID |-> id,
                              releaseTime |-> ReleaseTime(now, cfg.timeout)]]
            /\ pc' = [pc EXCEPT ![c] = "send"]
            /\ userID' = [userID EXCEPT ![c] = id]
            /\ UNCHANGED denied
  /\ UNCHANGED << cfg, result, now, wpc, toFree, cleanup, overlapped, released, cleaned >>
  /\ UNCHANGED remoteOthers

\* rlWorker on the Redis store: cfg.storage.Decrease(toFree.userID)
RemoteDecrease(w, ok) ==
  /\ ~crashed
  /\ Awake(w)
  /\ redis' = RedisDecrease(redis, toFree[w].userID, ok)
  /\ RedisCalled("Decrease", toFree[w].userID, [cmd \in {"DECR"} |-> ok], 0)
  /\ wpc' = [wpc EXCEPT ![w] = "recv"]
  /\ toFree' = [toFree EXCEPT ![w] = NoEntry]
  /\ released' = TRUE
  /\ UNCHANGED << cfg, result, now, pc, userID, offered, cleanup, admittedAt, denied,
                  overlapped, cleaned >>
  /\ UNCHANGED remoteOthers

\* CleanupWorker.run on the Redis store: a tick is waiting on ticker.C;
\* cw.storage.FreeAll().
RemoteCleanupRun(ok) ==
  /\ ~crashed
  /\ cleanup.started
  /\ cleanup.tickPending
  /\ redis' = RedisFreeAll(redis, ok)
  /\ RedisCalled("FreeAll", NoId, [cmd \in {"FLUSHALL"} |-> ok], 0)
  /\ cleanup' = [cleanup EXCEPT !.tickPending = FALSE]
  /\ cleaned' = TRUE
  /\ UNCHANGED << cfg, result, now, pc, userID, offered, wpc, toFree, admittedAt,
                  denied, overlapped, released >>
  /\ UNCHANGED remoteOthers

\* Another client of the same server stores its key.
OtherClientSet ==
  /\ OtherKey \notin DOMAIN redis
  /\ redis' = [k \in (DOMAIN redis) \cup {OtherKey} |->
                 IF k = OtherKey THEN OtherValue ELSE redis[k]]
  /\ UNCHANGED << limiterVars, last, failed, crashed >>
  /\ UNCHANGED remoteOthers

RemoteNext ==
  \/ Build
  \/ \E c \in Callers, okGet \in BOOLEAN, okIncr \in BOOLEAN :
       RemoteIsBlocked(c, "a", okGet, okIncr, okIncr)
  \/ \E c \in Callers, w \in Workers : Handoff(c, w)
  \/ \E w \in Workers, ok \in BOOLEAN : RemoteDecrease(w, ok)
  \/ \E ok \in BOOLEAN : RemoteCleanupRun(ok)
  \/ OtherClientSet
  \/ Tick

RemoteSpec == RemoteInit /\ [][RemoteNext]_vars

\* --------------------------------------------------- Stop called repeatedly
\* The cleanup worker of CleanupSpec with an owner that may call Stop any
\* number of times.  close on a channel that is already closed panics, and
\* a panic that nothing recovers ends the process.
stopOthers == << cfg, result, pc, userID, offered, wpc, toFree, admittedAt,
                 denied, overlapped, released, goroutine, calls, redis,
                 failed, heap, sets, ctx >>

\* Stop: close(cw.stopChan)
CwClose ==
  /\ ~crashed
  /\ cwState.pc # "none"
  /\ IF cwState.stopped
       THEN crashed' = TRUE /\ UNCHANGED cwState
       ELSE cwState' = [cwState EXCEPT !.stopped = TRUE] /\ UNCHANGED crashed
  /\ UNCHANGED << now, storage, lock, cleanup, cleaned, last >>
  /\ UNCHANGED stopOthers

StopNext ==
  \/ ~crashed /\ CwStart
  \/ CwClose
  \/ ~crashed /\ CwFreeAll
  \/ ~crashed /\ CwReturn
  \/ ~crashed /\ CwTick
  \/ ~crashed /\ \E id \in Ids : StoreIncrease(id)

StopSpec == CleanupInit /\ [][StopNext]_vars

\* ------------------------------------------------- the counter at its top
\* The limiter with the highest limit a uint16 holds, after so many admitted
\* requests of identifier "a" that its count is one or two below the limit.
\* Their entries are still ahead of their release: the workers sleep on the
\* ones they received, the other requests wait in their send on cfg.queue and
\* stay there.  Requests keep arriving.
TopLimit == CounterModulus - 1

TopConfigs ==
  [ limit : {TopLimit}, workerCount : {1, 2}, timeout : {2 * Second},
    tolerance : {Second}, fullCleanupRotation : {3 * Second},
    idSelector : {TRUE}, handler : {TRUE}, storage : {TRUE} ]

TopInit ==
  /\ cfg \in TopConfigs
  /\ result = [called |-> TRUE, h |-> TRUE, e |-> ""]
  /\ now = 0
  /\ \E count \in {TopLimit - 2, TopLimit - 1} : storage = MapSet(EmptyMap, "a", count)
  /\ lock = FALSE
  /\ pc = [c \in Callers |-> "idle"]
  /\ userID = [c \in Callers |-> NoId]
  /\ offered = [c \in Callers |-> NoEntry]
  /\ wpc = [w \in Workers |-> IF w <= cfg.workerCount THEN "sleep" ELSE "off"]
  /\ toFree = [w \in Workers |->
                 IF w <= cfg.workerCount
                   THEN [userID |-> "a", releaseTime |-> ReleaseTime(now, cfg.timeout)]
                   ELSE NoEntry]
  /\ cleanup = StartedCleanup(CleanupRotation(cfg), now)
  /\ admittedAt = [id \in Ids |-> << >>]
  /\ denied = [id \in Ids |-> 0]
  /\ overlapped = FALSE
  /\ released = FALSE
  /\ cleaned = FALSE
  /\ last = NoLast
  /\ AuxIdle

TopNext ==
  \/ \E c \in Callers, id \in Ids : IsBlockedGet(c, id)
  \/ \E c \in Callers : IsBlockedIncrease(c)
  \/ \E c \in Callers, w \in Workers : Handoff(c, w)
  \/ \E w \in Workers : WorkerDecrease(w)
  \/ CleanupRun
  \/ Tick

TopSpec == TopInit /\ [][TopNext]_vars

\* ------------------------------------------------------------- the claims
\* The configuration is valid in every option but the cleanup rotation
\* (the validation column of the configuration table).
OtherwiseValid(c) ==
  /\ c.idSelector /\ c.handler /\ c.storage
  /\ c.limit > 0
  /\ c.workerCount > 0
  /\ c.timeout > Second
  /\ c.tolerance >= 0 /\ c.tolerance < c.timeout

\* The admitted calls of id whose window has not yet elapsed.
Active(id) ==
  Cardinality({k \in 1..Len(admittedAt[id]) : admittedAt[id][k] + cfg.timeout > now})

\* C1: with admission calls issued one at a time, the number of admitted
\* calls of an identifier whose window has not elapsed is at most limit.
C1_ActiveWithinLimit ==
  ~overlapped => \A id \in Ids : Active(id) <= cfg.limit

\* C2: in a run of admission calls issued one at a time, with no release and
\* no cleanup, the first limit calls of an identifier are admitted and every
\* later one is denied: a call is denied only once limit calls were admitted,
\* and never more than limit are.
C2_FirstLimitAdmitted ==
  (~overlapped /\ ~released /\ ~cleaned) =>
    \A id \in Ids :
      /\ Len(admittedAt[id]) <= cfg.limit
      /\ denied[id] > 0 => Len(admittedAt[id]) = cfg.limit

\* C2's case: limit 2, two calls admitted and the third denied.
C2_Witness ==
  /\ ~overlapped /\ ~released /\ ~cleaned
  /\ cfg.limit = 2
  /\ Len(admittedAt["a"]) = 2
  /\ denied["a"] = 1

\* C3: the stored count of an identifier never exceeds limit, whatever the
\* interleaving of concurrent admission calls.
C3_CountWithinLimit ==
  \A id \in Ids : Get(storage, id) <= cfg.limit

\* C4: a denied call leaves every counter and the release queue as they
\* were; the increment of an admitted call adds exactly 1 to the caller's
\* identifier, leaves the other identifiers alone and offers exactly one
\* entry, for that identifier, with releaseTime = now + window.
C4_AdmissionFrame ==
  [][ /\ \A id \in Ids :
           denied'[id] # denied[id] =>
             /\ storage' = storage
             /\ offered' = offered
             /\ toFree' = toFree
             /\ pc' = pc
      /\ \A c \in Callers :
           (pc[c] = "increase" /\ pc'[c] # "increase") =>
             /\ Get(storage', userID[c]) = Get(storage, userID[c]) + 1
             /\ \A id \in Ids \ {userID[c]} : Get(storage', id) = Get(storage, id)
             /\ offered'[c] = [userID |-> userID[c], releaseTime |-> now + cfg.timeout]
             /\ \A d \in Callers \ {c} : offered'[d] = offered[d]
             /\ toFree' = toFree
    ]_vars

\* C4's case: one call was denied and another, admitted, waits in its send
\* with the entry it built.
C4_Witness ==
  /\ \E id \in Ids : denied[id] > 0
  /\ \E c \in Callers : pc[c] = "send" /\ offered[c].releaseTime = now + cfg.timeout

\* C5: the release of an admitted call returns and lowers the count of its
\* identifier by exactly 1.
C5_ReleaseDecrements ==
  [][ \A w \in Workers :
        (Awake(w) /\ wpc'[w] # wpc[w] /\ Get(storage, toFree[w].userID) >= 1) =>
          /\ wpc'[w] = "recv"
          /\ Get(storage', toFree[w].userID) = Get(storage, toFree[w].userID) - 1
    ]_vars

\* C6 as stated: an admitted call never waits in its enqueue; whenever a
\* call stands at its send, a receive is there to complete it.
C6_SendNeverBlocks ==
  \A c \in Callers : pc[c] = "send" => \E w \in Workers : wpc[w] = "recv"

\* C6 amended: the queue is an unbuffered channel; a send completes only in
\* a step in which a worker waiting in its receive takes the entry.
C6_SendNeedsReceiver ==
  [][ \A c \in Callers :
        (pc[c] = "send" /\ pc'[c] # "send") =>
          \E w \in Workers :
            /\ wpc[w] = "recv"
            /\ wpc'[w] \in {"sleep", "decrease"}
            /\ toFree'[w] = offered[c]
    ]_vars

\* C6's case: every worker is asleep and an admitted call has been waiting
\* in its send for a second or more.
C6_Witness ==
  \E c \in Callers :
    /\ pc[c] = "send"
    /\ offered[c].releaseTime - cfg.timeout < now
    /\ \A w \in Workers : w <= cfg.workerCount => wpc[w] = "sleep"

\* The counts of m with id lowered by one, the identifier removed at zero.
Lowered(m, id) ==
  IF Get(m, id) > 1 THEN MapSet(m, id, Get(m, id) - 1) ELSE MapDelete(m, id)

\* C7: decrease(id) on an identifier of the store returns with the count of
\* id lowered by 1, id removed when the count would be <= 0, and the other
\* identifiers unchanged.
C7_DecreaseContract ==
  (last.op = "Decrease" /\ last.id \in DOMAIN last.before) =>
    /\ last.returned
    /\ storage = Lowered(last.before, last.id)

\* C8: free(id) leaves get(id) = 0 each time it is called, and decrease(id)
\* on an identifier that is not in the store returns and changes nothing.
C8_Idempotence ==
  /\ last.op = "Free" => (last.returned /\ Get(storage, last.id) = 0)
  /\ (last.op = "Decrease" /\ last.id \notin DOMAIN last.before) =>
       (last.returned /\ storage = last.before)

\* C9: a firing of the cleanup worker leaves get(id) = 0 for every
\* identifier and does not touch the entries offered on the queue or held
\* by the workers.
C9_FreeAllZeroes ==
  [][ (cleanup.tickPending /\ ~cleanup'.tickPending) =>
        /\ \A id \in Ids : Get(storage', id) = 0
        /\ offered' = offered
        /\ toFree' = toFree
        /\ wpc' = wpc
    ]_vars

\* C9's case: FreeAll has run while a worker slept on an entry: the entry
\* is still held, its increment is gone and its identifier counts 0.
C9_Witness ==
  /\ cleaned
  /\ ~cleanup.tickPending
  /\ \E w \in Workers :
       /\ wpc[w] = "sleep"
       /\ toFree[w].userID \in Ids
       /\ Get(storage, toFree[w].userID) = 0

\* C10: Build of a configuration with cleanupRotation = 0 and otherwise
\* valid options returns an admission function and no error, and starts no
\* cleanup worker.
C10_DisabledCleanupBuilds ==
  (result.called /\ cfg.fullCleanupRotation = 0 /\ OtherwiseValid(cfg)) =>
    (result.h /\ result.e = "" /\ ~cleanup.started)

\* C11: the cleanup worker that Build starts fires with the configured
\* rotation as its period: no FreeAll runs less than fullCleanupRotation
\* after Build (which is at time 0).
C11_CleanupPeriod ==
  cleaned => now >= cfg.fullCleanupRotation

\* C12: Build with tolerance >= timeout, tolerance = timeout included,
\* returns an error and no admission function and starts nothing, whatever
\* the other options are.
C12_ToleranceRejected ==
  (result.called /\ cfg.tolerance >= cfg.timeout) =>
    /\ ~result.h
    /\ result.e # ""
    /\ \A w \in Workers : wpc[w] = "off"
    /\ ~cleanup.started

\* C12's case: Build was called with tolerance exactly equal to timeout and
\* every other option valid.
C12_Witness ==
  /\ result.called
  /\ cfg.tolerance = cfg.timeout
  /\ cfg.idSelector /\ cfg.handler /\ cfg.storage
  /\ cfg.limit > 0 /\ cfg.workerCount > 0 /\ cfg.timeout > Second
  /\ cfg.fullCleanupRotation > cfg.timeout
  /\ result.e # ""

\* One of the conditions under which Build must fail holds for c.
Rejected(c) ==
  \/ ~c.idSelector \/ ~c.handler \/ ~c.storage
  \/ c.limit = 0
  \/ c.workerCount = 0
  \/ c.timeout <= Second
  \/ c.tolerance < 0 \/ c.tolerance >= c.timeout
  \/ (0 < c.fullCleanupRotation /\ c.fullCleanupRotation <= c.timeout)

\* C13: Build returns exactly one of an admission function and an error; it
\* returns the error, and starts no release worker and no cleanup worker,
\* when one of the listed conditions holds; it returns the function when
\* none holds and fullCleanupRotation > timeout.
C13_BuildValidation ==
  result.called =>
    /\ result.h <=> (result.e = "")
    /\ Rejected(cfg) =>
         /\ ~result.h
         /\ \A w \in Workers : wpc[w] = "off"
         /\ ~cleanup.started
    /\ (~Rejected(cfg) /\ cfg.fullCleanupRotation > cfg.timeout) =>
         /\ result.h
         /\ \A w \in Workers : (wpc[w] # "off") <=> (w <= cfg.workerCount)
         /\ cleanup.started

\* C13's case: Build refused a configuration whose only fault is a cleanup
\* rotation equal to the timeout.
C13_Witness ==
  /\ result.called
  /\ OtherwiseValid(cfg)
  /\ cfg.fullCleanupRotation = cfg.timeout
  /\ ~result.h
  /\ result.e = "FullCleanupRotation cannot be less than Timeout"

\* C14: the operations of the local store on one identifier are linearizable
\* and lose no update.  While only Increase and Get have been called: once
\* every call has returned, the count of an identifier is the number of its
\* Increase calls; and a Get returns a count that is at least the number of
\* Increase calls that had returned when it was called and at most the number
\* that had been called when it returns.
C14_Linearizable ==
  [][ calls'.increasesOnly =>
        /\ (\A g \in Goroutines : goroutine'[g].pc = "idle") =>
             \A id \in Ids : /\ Get(storage', id) = calls'.done[id]
                             /\ calls'.done[id] = calls'.started[id]
        /\ \A g \in Goroutines :
             (goroutine[g].fn = "Get" /\ goroutine[g].pc = "unlock"
                /\ goroutine'[g].pc = "idle") =>
               /\ goroutine[g].seen <= goroutine[g].count
               /\ goroutine[g].count <= calls.started[goroutine[g].id]
    ]_vars

\* C14's case: after one Increase of "a" has returned, two more overlap: one
\* stands between its read and its write while the other waits in Lock.
C14_Witness ==
  /\ calls.increasesOnly
  /\ calls.done["a"] = 1
  /\ \E g, h \in Goroutines :
       /\ goroutine[g].fn = "Increase" /\ goroutine[g].id = "a"
       /\ goroutine[g].pc = "store"
       /\ goroutine[h].fn = "Increase" /\ goroutine[h].id = "a"
       /\ goroutine[h].pc = "lock"

\* What Get returns for id when its command goes well.
RedisCount(db, id) == RedisGet(db, id, TRUE)

\* C15: on the Redis store the count is never negative and an absent
\* identifier counts 0: a Decrease of an identifier whose count is 0, or that
\* is absent, leaves Get at 0, and an admission call that follows does not
\* find the identifier at its limit.
C15_CountNonNegative ==
  (last.op = "Decrease" /\ failed = {} /\ RedisCount(last.before, last.id) = 0) =>
    /\ RedisCount(redis, last.id) = 0
    /\ ~Blocked(RedisCount(redis, last.id), cfg.limit)

\* C16: a failing command of the Redis store never ends the process and
\* never leaves a call without its result: the call that met the failure
\* has returned, an admission call with its decision.
C16_FailureSurvived ==
  /\ ~crashed
  /\ last.returned
  /\ last.op = "isBlocked" => last.value \in {0, 1}

\* C16's case: an admission call whose GET and INCR both failed has
\* returned, letting the request through.
C16_Witness ==
  /\ {"GET", "INCR"} \subseteq failed
  /\ last.op = "isBlocked"
  /\ last.returned
  /\ last.value = 0
  /\ last.id \notin DOMAIN redis
  /\ ~crashed

LimiterView(h, j) ==
  [store |-> h.stores[h.configs[j].storage],
   queue |-> h.queues[h.configs[j].queue],
   config |-> h.configs[j]]

\* C18: two limiters built from two NewConfigBuilder() values do not
\* interfere: a step of one (a build, an admission, a receive, a release or
\* a cleanup) leaves the counters, the release queue, the worker's entry and
\* the decisions of the other as they were.
C18_Independent ==
  [][ \A j \in DOMAIN heap.configs :
        heap'.actor # j => LimiterView(heap', j) = LimiterView(heap, j) ]_vars

\* C18's case: both limiters have limit 1; the first has admitted "a" and
\* then denied it, and the second has admitted "a" after that.
C18_Witness ==
  /\ Len(heap.configs) = 2
  /\ heap.configs[1].limit = 1 /\ heap.configs[2].limit = 1
  /\ heap.configs[1].denied = 1
  /\ Get(heap.stores[heap.configs[1].storage].storage, "a") = 1
  /\ heap.configs[2].admitted = 1
  /\ Get(heap.stores[heap.configs[2].storage].storage, "a") = 1

\* C19: the configuration is fixed once the admission function is built: a
\* setter called after Build changes nothing the limiter uses.  Every
\* decision compares the count with the limit Build saw, every entry is due
\* the timeout Build saw after its admission, and a worker sleeps or not by
\* the tolerance Build saw.
C19_ConfigFrozen ==
  [][ /\ \A id \in Ids :
           /\ denied'[id] # denied[id] => Blocked(Get(storage, id), SetterConfig.limit)
           /\ admittedAt'[id] # admittedAt[id] =>
                ~Blocked(Get(storage, id), SetterConfig.limit)
      /\ \A c \in Callers :
           (pc[c] = "increase" /\ pc'[c] = "send") =>
             offered'[c].releaseTime = ReleaseTime(now, SetterConfig.timeout)
      /\ \A w \in Workers :
           (wpc[w] = "recv" /\ wpc'[w] # "recv") =>
             wpc'[w] = AfterReceive(toFree'[w], now, SetterConfig.tolerance)
    ]_vars

\* C20: every call of the local store returns and releases the mutex; no
\* goroutine waits in h.lock.Lock() for a mutex that its own call holds,
\* since nothing would ever release it.
C20_EveryCallReturns ==
  \A g \in Goroutines :
    ~(goroutine[g].pc = "lock" /\ goroutine[g].outer # "none" /\ lock)

\* The admitted calls of id whose Decrease has not been called yet: those
\* that offer their entry on the queue and those whose entry a worker holds
\* before its Decrease.
Outstanding(id) ==
  Cardinality({c \in Callers : pc[c] = "send" /\ userID[c] = id})
  + Cardinality({w \in Workers : wpc[w] \in {"sleep", "decrease"}
                                   /\ toFree[w].userID = id})

\* C21: while no cleanup has fired, the count of an identifier is the number
\* of its admitted calls whose Decrease has not run yet; an entry is held by
\* one worker and its Decrease is called once.
C21_CountIsOutstanding ==
  ~cleaned =>
    /\ \A id \in Ids : Get(storage, id) = Outstanding(id)
    /\ \A v, w \in Workers :
         (v # w /\ toFree[v] # NoEntry /\ toFree[w] # NoEntry) =>
           ~(toFree[v] = toFree[w] /\ Len(admittedAt[toFree[v].userID]) < 2)

\* C22: a worker that receives an entry sleeps when releaseTime - now is at
\* least the tolerance and goes on to Decrease otherwise; Decrease is never
\* called earlier than releaseTime - tolerance, and a worker that slept calls
\* it no earlier than releaseTime.
C22_ToleranceTiming ==
  [][\A w \in Workers :
       /\ (wpc[w] = "recv" /\ wpc'[w] \in {"sleep", "decrease"}) =>
            LET remaining == toFree'[w].releaseTime - now IN
            wpc'[w] = IF remaining >= cfg.tolerance THEN "sleep" ELSE "decrease"
       /\ (wpc[w] \in {"sleep", "decrease"} /\ wpc'[w] \in {"recv", "parked"}) =>
            /\ now >= toFree[w].releaseTime - cfg.tolerance
            /\ wpc[w] = "sleep" => now >= toFree[w].releaseTime]_vars

\* A worker has called Decrease before the release time of its entry, less
\* than a tolerance early.
C22_Witness ==
  \E w \in Workers :
    /\ wpc[w] = "parked"
    /\ now < toFree[w].releaseTime
    /\ now >= toFree[w].releaseTime - cfg.tolerance

\* The entry was created before the first tick of the cleanup worker, and so
\* before every FreeAll.
CreatedBeforeCleanup(entry) ==
  cleaned /\ entry.releaseTime - cfg.timeout < cleanup.rotation

\* Of the admissions of id only the first was made before the first tick of
\* the cleanup worker.
OthersAfterCleanup(id) ==
  /\ Len(admittedAt[id]) >= 2
  /\ admittedAt[id][1] < cleanup.rotation
  /\ \A i \in 2..Len(admittedAt[id]) : admittedAt[id][i] >= cleanup.rotation

\* C23: after a FreeAll a count is made of the admissions that came after
\* it; the Decrease of an entry created before the FreeAll does not lower the
\* count that later admissions of the identifier have built up.
C23_StaleReleaseKeepsCount ==
  [][\A w \in Workers :
       ( /\ wpc[w] \in {"sleep", "decrease"}
         /\ wpc'[w] \in {"recv", "parked"}
         /\ CreatedBeforeCleanup(toFree[w])
         /\ OthersAfterCleanup(toFree[w].userID) )
       => Get(storage', toFree[w].userID) >= Get(storage, toFree[w].userID)]_vars

\* C24: for every request the closure calls cfg.handler or ctx.Next, never
\* both: the handler only when the count Get returned was at least the limit,
\* ctx.Next only when it was below the limit.
C24_HandlerOrNext ==
  \A c \in Callers :
    /\ ~(ctx[c].handler /\ ctx[c].next)
    /\ ctx[c].handler => ctx[c].currentState >= cfg.limit
    /\ ctx[c].next => ctx[c].currentState < cfg.limit
    /\ (ctx[c].blocked = "true" /\ Returned(c)) => ctx[c].handler
    /\ (ctx[c].blocked = "false" /\ Returned(c)) => ctx[c].next

\* One request was answered by the denial handler, another went downstream.
C24_Witness ==
  \E c, d \in Callers :
    /\ ctx[c].handler /\ ctx[c].currentState >= cfg.limit
    /\ ctx[d].next /\ ctx[d].currentState < cfg.limit

\* The entries of id that wait for their Decrease on the Redis store.
RemoteOutstanding(id) ==
  Cardinality({c \in Callers : offered[c].userID = id})
  + Cardinality({w \in Workers : toFree[w].userID = id})

\* C25: on the Redis store an admission call whose GET fails is let through,
\* whatever the limit and the number of entries already waiting, and it
\* offers a release entry for its identifier on the queue.
C25_FailOpen ==
  [][( /\ NumCalls' = NumCalls + 1
       /\ "GET" \in failed' )
     => /\ last'.op = "isBlocked" /\ last'.value = 0
        /\ denied' = denied
        /\ \E c \in Callers :
             /\ offered[c] = NoEntry
             /\ offered'[c] = [userID |-> last'.id,
                               releaseTime |-> ReleaseTime(now, cfg.timeout)]]_vars

\* A call whose GET failed was let through although the server holds the
\* identifier at the limit and as many entries of it were already waiting.
C25_Witness ==
  /\ "GET" \in failed
  /\ last.op = "isBlocked" /\ last.value = 0
  /\ RedisCount(last.before, last.id) >= cfg.limit
  /\ RemoteOutstanding(last.id) > cfg.limit

\* C26: a cleanup firing on the Redis store leaves every key that is not an
\* identifier of the limiter as it was.
C26_CleanupKeepsOtherKeys ==
  [][(cleanup.tickPending /\ ~cleanup'.tickPending) =>
       \A k \in (DOMAIN redis) \ Ids :
         k \in DOMAIN redis' /\ redis'[k] = redis[k]]_vars

\* C27: Stop may be called any number of times on the same worker, before or
\* after Start: no call panics.
C27_StopRepeatable == ~crashed

\* C28: Increase is never applied to an identifier whose count is 65535, so
\* no count goes from 65535 to 0.
C28_CounterNeverWraps ==
  [][\A c \in Callers :
       (pc[c] = "increase" /\ pc'[c] = "send") =>
         /\ Get(storage, userID[c]) < CounterModulus - 1
         /\ Get(storage', userID[c]) > Get(storage, userID[c])]_vars
====
